---- MODULE Spec2Model ----
(***************************************************************************)
(* Model of the donatia data layer and HTTP handlers (src/unnamed/part_002) *)
(* over a Firestore-like document store.                                    *)
(*                                                                          *)
(* Collections are partial functions from document IDs to document data.    *)
(* A document reference is modelled by the ID of the document it points to  *)
(* (the collection is fixed by the field that holds the reference).         *)
(* Strings that the code transforms (category names, filters) are           *)
(* sequences of characters, so that toLowerCase is computed.                *)
(***************************************************************************)
EXTENDS Integers, Sequences, FiniteSets, TLC

VARIABLES organizations, acceptedCategories, members, favorites,
          res, prev, requests, pendingSets, detached

vars == <<organizations, acceptedCategories, members, favorites,
          res, prev, requests, pendingSets, detached>>

store == <<organizations, acceptedCategories, members, favorites>>

\* The store together with the writes that are issued and not yet applied.
snapshot == <<organizations, acceptedCategories, members, favorites,
              pendingSets>>

(***************************************************************************)
(* Bounds                                                                   *)
(***************************************************************************)
\* Size of the pool of auto-generated document IDs of each collection.
MaxDocs == 2

\* Number of requests that may be in flight at once (concurrent model).
MaxRequests == 2

(***************************************************************************)
(* Values                                                                   *)
(***************************************************************************)
Undefined == "undefined"

\* An uncaught exception / rejected promise inside a handler.
TypeError == "TypeError"
NotFoundError == "NOT_FOUND"

DocIds == 1..MaxDocs

\* Organization document IDs in document-ID order.  In the empty database
\* they name no document.
OrgOrder == <<"o1", "o2">>
OrgIds == {OrgOrder[i] : i \in DOMAIN OrgOrder}
ExistingOrgs == {"o1", "o2"}

UpperCase == <<"A","B","C","D","E","F","G","H","I","J","K","L","M",
               "N","O","P","Q","R","S","T","U","V","W","X","Y","Z">>
LowerCase == <<"a","b","c","d","e","f","g","h","i","j","k","l","m",
               "n","o","p","q","r","s","t","u","v","w","x","y","z">>

\* String.prototype.toLowerCase on one character.
LowerChar(c) ==
  IF \E i \in DOMAIN UpperCase : UpperCase[i] = c
  THEN LowerCase[CHOOSE i \in DOMAIN UpperCase : UpperCase[i] = c]
  ELSE c

toLowerCaseIdentity(s) == s

\* String.prototype.toLowerCase, as used on the filter.
toLowerCase(s) == [i \in DOMAIN s |-> LowerChar(s[i])]

food == <<"f","o","o","d">>
Food == <<"F","o","o","d">>
clothing == <<"c","l","o","t","h","i","n","g">>
Clothing == <<"C","l","o","t","h","i","n","g">>

\* Category names a request body may carry (used verbatim as document ID).
CategoryInputs == {food, Food}
\* Filter strings passed to getFilteredOrganizations.
FilterInputs == {food, Food, Clothing}

InstructionInputs == {"i1", "i2"}

\* Passport user objects; Undefined is the unauthenticated request.
User(id) == [id |-> id, displayName |-> <<"name", id>>,
             emails |-> <<[value |-> <<"mail", id>>]>>]
Users == {User("u1")}
\* req.user of an unauthenticated request (falsy in the code's !user tests).
NoUser == [id |-> Undefined, displayName |-> <<>>, emails |-> <<>>]
MaybeUsers == Users \cup {NoUser}
IsFalsy(user) == user = NoUser

(***************************************************************************)
(* Document store primitives (Firestore calls made by the handlers)         *)
(***************************************************************************)
Put(coll, id, data) ==
  [x \in DOMAIN coll \cup {id} |-> IF x = id THEN data ELSE coll[x]]

Remove(coll, id) == [x \in DOMAIN coll \ {id} |-> coll[x]]

\* DocumentReference.update: merges the given fields into the document.
Merge(old, fields) ==
  [k \in DOMAIN old \cup DOMAIN fields |->
     IF k \in DOMAIN fields THEN fields[k] ELSE old[k]]

Min(S) == CHOOSE x \in S : \A y \in S : x <= y

\* A query snapshot's docs: the matching IDs in document-ID order.
RECURSIVE SortedIds(_)
SortedIds(S) ==
  IF S = {} THEN <<>> ELSE <<Min(S)>> \o SortedIds(S \ {Min(S)})

\* IDs a collection.doc() call may generate: any ID not in the collection.
FreshIds(coll) == DocIds \ DOMAIN coll

EmptyColl == [x \in {} |-> Undefined]

\* Responses record the HTTP status as a string ("200", "redirect"), or the
\* error of the uncaught rejection when the handler sent no response.
NoResponse == [handler |-> "none"]

\* Outcome of an async function: a returned value or a rejection.
Ok(v) == [threw |-> FALSE, value |-> v]
Throw(e) == [threw |-> TRUE, value |-> e]

(***************************************************************************)
(* Data access layer                                                        *)
(***************************************************************************)
\* The AcceptedCategories documents whose field fieldName equals ref,
\* as the object {doc.id: doc.data()}.
getAcceptedCategoriesByRef(ref, fieldName) ==
  [id \in {i \in DOMAIN acceptedCategories :
              acceptedCategories[i][fieldName] = ref}
     |-> acceptedCategories[id]]

\* Member documents of the collection mems whose authenticationID equals
\* the user's id; mems is the Members collection as the query is served.
MemberDocs(mems, user) ==
  SortedIds({m \in DOMAIN mems : mems[m].authenticationID = user.id})

\* The same query served on the Members collection of the current state.
MemberQuery(user) == MemberDocs(members, user)

\* Reads memberQuery.docs[0].ref: a TypeError when the query is empty.
getMemberReferenceOn(mems, user) ==
  IF IsFalsy(user) THEN Ok(Undefined)
  ELSE IF Len(MemberDocs(mems, user)) = 0 THEN Throw(TypeError)
  ELSE Ok(MemberDocs(mems, user)[1])

getMemberReference(user) == getMemberReferenceOn(members, user)

\* Favorites documents linking member document memberRef to organizationRef.
FavoritesQuery(memberRef, organizationRef) ==
  SortedIds({f \in DOMAIN favorites :
               /\ favorites[f].member = memberRef
               /\ favorites[f].organization = organizationRef})

\* isFavoriteOfMember without the early return for a missing user: the
\* answer comes from the Favorites of the organization alone.
isFavoriteOfMemberNoGuard(organizationID, user, mems) ==
  IF IsFalsy(user)
  THEN Ok(\E f \in DOMAIN favorites :
            favorites[f].organization = organizationID)
  ELSE IF getMemberReferenceOn(mems, user).threw
  THEN getMemberReferenceOn(mems, user)
  ELSE Ok(Len(FavoritesQuery(getMemberReferenceOn(mems, user).value,
                             organizationID)) = 1)

\* mems is the Members collection as the query of getMemberReference is
\* served.
isFavoriteOfMember(organizationID, user, mems) ==
  IF IsFalsy(user) THEN Ok(FALSE)
  ELSE IF getMemberReferenceOn(mems, user).threw
  THEN getMemberReferenceOn(mems, user)
  ELSE Ok(Len(FavoritesQuery(getMemberReferenceOn(mems, user).value,
                             organizationID)) = 1)

getOrganizationCategoriesAll(organizationReference) ==
  LET ids == SortedIds(DOMAIN acceptedCategories)
  IN  [i \in DOMAIN ids |-> acceptedCategories[ids[i]].category]

\* The category IDs of the organization's AcceptedCategories, in key order.
getOrganizationCategories(organizationReference) ==
  LET acs == getAcceptedCategoriesByRef(organizationReference, "organization")
      ids == SortedIds(DOMAIN acs)
  IN  [i \in DOMAIN ids |-> acs[ids[i]].category]

\* One element of the organization lists: the document data with id,
\* favorite and categories set.  Setting a property on the data of a
\* missing document, or a rejected isFavoriteOfMember, throws.
AnnotatedOrganization(orgId, user, mems) ==
  IF orgId \notin DOMAIN organizations THEN Throw(TypeError)
  ELSE IF isFavoriteOfMember(orgId, user, mems).threw
       THEN isFavoriteOfMember(orgId, user, mems)
  ELSE Ok(Merge(organizations[orgId],
                [id |-> orgId,
                 favorite |-> isFavoriteOfMember(orgId, user, mems).value,
                 categories |-> getOrganizationCategories(orgId)]))

\* Awaits each element of a list of outcomes in order; the first rejection
\* rejects the whole.
Collect(outcomes) ==
  IF \E i \in DOMAIN outcomes : outcomes[i].threw
  THEN outcomes[Min({i \in DOMAIN outcomes : outcomes[i].threw})]
  ELSE Ok([i \in DOMAIN outcomes |-> outcomes[i].value])

\* Organization documents in document-ID order.
OrganizationDocs ==
  SelectSeq(OrgOrder, LAMBDA o : o \in DOMAIN organizations)

\* The loop awaits isFavoriteOfMember for one organization after the
\* other: views[i] is the Members collection as served in iteration i.
getAllOrganizations(user, views) ==
  Collect([i \in DOMAIN OrganizationDocs |->
             AnnotatedOrganization(OrganizationDocs[i], user, views[i])])

\* The AcceptedCategories documents getFilteredOrganizations loops over.
FilteredDocs(filter) ==
  SortedIds(DOMAIN getAcceptedCategoriesByRef(toLowerCase(filter),
                                              "category"))

getFilteredOrganizations(filter, user, views) ==
  LET acs == getAcceptedCategoriesByRef(toLowerCase(filter), "category")
      ids == SortedIds(DOMAIN acs)
  IN  Collect([i \in DOMAIN ids |->
                 AnnotatedOrganization(acs[ids[i]].organization, user,
                                       views[i])])

(***************************************************************************)
(* Initial state                                                            *)
(***************************************************************************)
Location(lat, lng) == [lat |-> lat, lng |-> lng]

\* An Organization document as stored before any handler has run.
InitialOrganization(o) ==
  [name |-> o, address |-> "a0", coordinates |-> Location(0, 0),
   acceptsDropOff |-> FALSE, acceptsPickUp |-> FALSE,
   acceptsShipping |-> FALSE]

NoRequests == [r \in {} |-> Undefined]

\* No replaced Firestore instance has an operation outstanding.
NoInstances == [k \in {} |-> Undefined]

Init ==
  /\ organizations = [o \in ExistingOrgs |-> InitialOrganization(o)]
  /\ acceptedCategories = EmptyColl
  /\ members = EmptyColl
  /\ favorites = EmptyColl
  /\ res = NoResponse
  /\ requests = NoRequests
  /\ pendingSets = {}
  /\ detached = NoInstances
  /\ prev = snapshot

\* The response (or the uncaught rejection) of a handler is recorded
\* together with the store the handler started from.
Respond(response) ==
  /\ res' = response
  /\ prev' = snapshot
  /\ UNCHANGED <<requests, detached>>

\* A handler run to completion, one request at a time, that leaves no write
\* outstanding when it responds.
Finish(response) ==
  /\ Respond(response)
  /\ UNCHANGED pendingSets

\* A Firestore instance, by the collections it holds.
Database(orgs, accepted, mems, favs) ==
  [organizations |-> orgs, acceptedCategories |-> accepted,
   members |-> mems, favorites |-> favs]

EmptyDatabase == Database(EmptyColl, EmptyColl, EmptyColl, EmptyColl)

SeededDatabase ==
  Database([o \in ExistingOrgs |-> InitialOrganization(o)],
           EmptyColl, EmptyColl, EmptyColl)

\* The instances setDatabase is given: a newly made one, empty or seeded
\* with the organizations.
Databases == {EmptyDatabase, SeededDatabase}

\* An operation (a query, a set, an update) is carried out by the instance
\* that firestore named when the operation was issued.  Current stands for
\* the instance firestore names now, whose collections are the store
\* variables; detached holds, under the IDs in InstanceIds, the replaced
\* instances that still have an operation of a request outstanding.
Current == 0
InstanceIds == 1..MaxRequests

\* The collections and outstanding Member sets of instance k.
InstanceContent(k) ==
  IF k = Current
  THEN [organizations |-> organizations,
        acceptedCategories |-> acceptedCategories,
        members |-> members, favorites |-> favorites,
        pendingSets |-> pendingSets]
  ELSE detached[k]

\* The requests of a table that have an operation outstanding on k: a
\* request has one while it awaits its query or its write, and none while
\* it has yet to issue the next one.
BoundTo(reqs, k) ==
  {r \in DOMAIN reqs : reqs[r].pc \in {"query", "write"} /\ reqs[r].db = k}

\* The replaced instances some outstanding operation is still bound to;
\* the others are out of reach of the program.
Live(instances, reqs) ==
  [k \in {i \in DOMAIN instances : BoundTo(reqs, i) # {}} |-> instances[k]]

\* setDatabase: every operation issued from now on goes to the given
\* instance.  Operations already issued stay with the instance they were
\* issued on.
setDatabase(firestoreInstance) ==
  /\ organizations' = firestoreInstance.organizations
  /\ acceptedCategories' = firestoreInstance.acceptedCategories
  /\ members' = firestoreInstance.members
  /\ favorites' = firestoreInstance.favorites
  /\ pendingSets' = {}
  /\ res' = [handler |-> "setDatabase"]
  /\ prev' = snapshot
  /\ IF BoundTo(requests, Current) = {}
     THEN UNCHANGED <<requests, detached>>
     ELSE LET k == Min(InstanceIds \ DOMAIN detached)
          IN  /\ requests' =
                   [r \in DOMAIN requests |->
                      IF r \in BoundTo(requests, Current)
                      THEN Merge(requests[r], [db |-> k])
                      ELSE requests[r]]
              /\ detached' = Put(detached, k, InstanceContent(Current))

SetDatabaseStep == \E db \in Databases : setDatabase(db)

(***************************************************************************)
(* AcceptedCategory handlers                                                *)
(***************************************************************************)
AcceptedCategoryBodies ==
  [category : CategoryInputs, instructions : InstructionInputs]

\* Bodies of the update-by-id handler: a category or an instructions update.
UpdateBodies ==
  {[category |-> c] : c \in CategoryInputs}
    \cup {[instructions |-> i] : i \in InstructionInputs}

\* req.body with organization and category replaced by references.
NewAcceptedCategoryData(orgId, body) ==
  Merge(body, [organization |-> orgId, category |-> body.category])

\* The existence query with the where-clause on the organization left out.
ExistingCategoryAnyOrganization(accepted, data) ==
  SortedIds({id \in DOMAIN accepted :
               accepted[id].category = data.category})

\* The query for AcceptedCategories with the data's category and
\* organization, served on the collection accepted.
ExistingCategory(accepted, data) ==
  SortedIds({id \in DOMAIN accepted :
               /\ accepted[id].category = data.category
               /\ accepted[id].organization = data.organization})

\* An upsert whose write looks the pair up again instead of using the
\* snapshot of its earlier query.
UpsertWriteRequery(accepted, existing, data, newId) ==
  IF Len(ExistingCategory(accepted, data)) = 0
  THEN Put(accepted, newId, data)
  ELSE Put(accepted, ExistingCategory(accepted, data)[1],
           Merge(accepted[ExistingCategory(accepted, data)[1]], data))

\* The write of the upsert on the collection accepted, given the snapshot
\* of the existence query: set a new document when the snapshot is empty,
\* else update docs[0] (an update of a document that is not there rejects).
UpsertWrite(accepted, existing, data, newId) ==
  IF Len(existing) = 0
  THEN Put(accepted, newId, data)
  ELSE IF existing[1] \in DOMAIN accepted
  THEN Put(accepted, existing[1], Merge(accepted[existing[1]], data))
  ELSE accepted

UpsertStatus(accepted, existing) ==
  IF Len(existing) = 0 \/ existing[1] \in DOMAIN accepted
  THEN "201" ELSE NotFoundError

acceptedCategoriesOrganizationPost(orgId, body) ==
  LET data == NewAcceptedCategoryData(orgId, body)
      existing == ExistingCategory(acceptedCategories, data)
  IN  /\ \E newId \in DocIds :
           /\ Len(existing) = 0 => newId \in FreshIds(acceptedCategories)
           /\ Len(existing) # 0 => newId = existing[1]
           /\ acceptedCategories' =
                UpsertWrite(acceptedCategories, existing, data, newId)
      /\ UNCHANGED <<organizations, members, favorites>>
      /\ Finish([handler |-> "acceptedCategoriesOrganizationPost",
                 organization |-> orgId, body |-> body,
                 status |-> UpsertStatus(acceptedCategories, existing)])

\* The body as written: a category name becomes a Category reference.
UpdatedAcceptedCategoryData(body) ==
  IF "category" \in DOMAIN body
  THEN Merge(body, [category |-> body.category])
  ELSE body

acceptedCategoriesPost(id, body) ==
  /\ UNCHANGED <<organizations, members, favorites>>
  /\ IF id \in DOMAIN acceptedCategories
     THEN /\ acceptedCategories' =
               Put(acceptedCategories, id,
                   Merge(acceptedCategories[id],
                         UpdatedAcceptedCategoryData(body)))
          /\ Finish([handler |-> "acceptedCategoriesPost", id |-> id,
                     body |-> body, status |-> "201"])
     ELSE \* update() of a missing document rejects; no response is sent
          /\ UNCHANGED acceptedCategories
          /\ Finish([handler |-> "acceptedCategoriesPost", id |-> id,
                     body |-> body, status |-> NotFoundError])

acceptedCategoriesDeleteRejectMissing(id) ==
  /\ acceptedCategories' = Remove(acceptedCategories, id)
  /\ UNCHANGED <<organizations, members, favorites>>
  /\ Finish([handler |-> "acceptedCategoriesDelete", id |-> id,
             status |-> IF id \in DOMAIN acceptedCategories
                        THEN "200" ELSE "404"])

acceptedCategoriesDelete(id) ==
  /\ acceptedCategories' = Remove(acceptedCategories, id)
  /\ UNCHANGED <<organizations, members, favorites>>
  /\ Finish([handler |-> "acceptedCategoriesDelete", id |-> id,
             status |-> "200"])

(***************************************************************************)
(* Calls of the exported list functions                                     *)
(***************************************************************************)
\* The Members collection once the outstanding set() operations in S are
\* applied.
MembersWith(S) ==
  [id \in DOMAIN members \cup {w.id : w \in S} |->
     IF id \in DOMAIN members THEN members[id]
     ELSE (CHOOSE w \in S : w.id = id).data]

\* A list call awaits its reads one iteration after the other, and the
\* store may apply outstanding set() operations in between: a[i] is the
\* set of those applied when iteration i reads Members.
AppliedSchedules(n) ==
  {a \in [1..n -> SUBSET pendingSets] :
     \A i \in 1..n, j \in 1..n : i <= j => a[i] \subseteq a[j]}

AppliedAtEnd(a) == IF Len(a) = 0 THEN {} ELSE a[Len(a)]

ApplyDuring(a) ==
  /\ members' = MembersWith(AppliedAtEnd(a))
  /\ pendingSets' = pendingSets \ AppliedAtEnd(a)
  /\ UNCHANGED <<organizations, acceptedCategories, favorites>>

CallGetAllOrganizations(user) ==
  \E a \in AppliedSchedules(Len(OrganizationDocs)) :
    /\ ApplyDuring(a)
    /\ Respond([handler |-> "getAllOrganizations", user |-> user,
                result |-> getAllOrganizations(
                             user, [i \in DOMAIN a |-> MembersWith(a[i])])])

CallGetFilteredOrganizations(filter, user) ==
  \E a \in AppliedSchedules(Len(FilteredDocs(filter))) :
    /\ ApplyDuring(a)
    /\ Respond([handler |-> "getFilteredOrganizations", filter |-> filter,
                user |-> user,
                result |-> getFilteredOrganizations(
                             filter, user,
                             [i \in DOMAIN a |-> MembersWith(a[i])])])

(***************************************************************************)
(* Specification of the AcceptedCategory handlers, one request at a time    *)
(***************************************************************************)
OrganizationPostStep ==
  \E o \in OrgIds, b \in AcceptedCategoryBodies :
    acceptedCategoriesOrganizationPost(o, b)

AcceptedCategoriesPostStep ==
  \E id \in DocIds, b \in UpdateBodies : acceptedCategoriesPost(id, b)

AcceptedCategoriesDeleteStep ==
  \E id \in DocIds : acceptedCategoriesDelete(id)

GetAllOrganizationsStep ==
  \E u \in MaybeUsers : CallGetAllOrganizations(u)

GetFilteredOrganizationsStep ==
  \E f \in FilterInputs, u \in MaybeUsers : CallGetFilteredOrganizations(f, u)

Next ==
  \/ OrganizationPostStep
  \/ AcceptedCategoriesPostStep
  \/ AcceptedCategoriesDeleteStep
  \/ GetAllOrganizationsStep
  \/ GetFilteredOrganizationsStep
  \/ SetDatabaseStep

Spec == Init /\ [][Next]_vars

(***************************************************************************)
(* Member and Favorite handlers                                             *)
(***************************************************************************)
\* The Member document getMember writes for a user.
UserData(user) ==
  [authenticationID |-> user.id, name |-> user.displayName,
   email |-> user.emails[1].value]

\* The IDs of the Member documents whose set() is outstanding.
PendingIds == {w.id : w \in pendingSets}

\* The IDs doc() may generate for a new Member document.
NewMemberIds == DocIds \ (DOMAIN members \cup PendingIds)

\* getMember's then-callback: a set() of a new Member document is issued
\* only when the query snapshot holds no document.  The set() is not
\* awaited: it is outstanding until the store applies it.
MemberSetIssued(found, user, newId) ==
  IF Len(found) # 0
  THEN pendingSets
  ELSE pendingSets \cup {[id |-> newId, data |-> UserData(user)]}

\* The JSON getMember sends: the found document's ID, or null (0 here, which
\* is no document ID).
MemberResponse(found) ==
  IF Len(found) # 0 THEN [id |-> found[1]] ELSE [id |-> 0]

\* getMember from the serving of its query to the end of the then-callback:
\* the response is sent in the callback, in the create branch as the
\* argument of then(), before the set() it has just issued is applied.
getMember(user) ==
  /\ UNCHANGED store
  /\ IF IsFalsy(user)
     THEN \* memberData.id of undefined
          Finish([handler |-> "getMember", user |-> user,
                  status |-> TypeError])
     ELSE /\ \E newId \in DocIds :
               /\ Len(MemberQuery(user)) = 0 => newId \in NewMemberIds
               /\ Len(MemberQuery(user)) # 0 => newId = MemberQuery(user)[1]
               /\ pendingSets' =
                    MemberSetIssued(MemberQuery(user), user, newId)
          /\ Respond([handler |-> "getMember", user |-> user,
                      status |-> "200",
                      body |-> MemberResponse(MemberQuery(user))])

\* The store applies an outstanding set() of getMember.  No request is
\* called or answered: the last response stays as it is.
MemberSetApplied(w) ==
  /\ w \in pendingSets
  /\ members' = Put(members, w.id, w.data)
  /\ pendingSets' = pendingSets \ {w}
  /\ UNCHANGED <<organizations, acceptedCategories, favorites, res, prev,
                 requests, detached>>

\* Permutations of a set of IDs: the orders in which the concurrent lookups
\* of getFavorites may push their results.
Orders(S) ==
  {q \in [1..Cardinality(S) -> S] : \A i, j \in DOMAIN q : q[i] = q[j] => i = j}

\* One entry of the getFavorites result; the data of a missing Organization
\* document spreads to no fields.
FavoriteEntry(orgId) ==
  Merge(IF orgId \in DOMAIN organizations
        THEN organizations[orgId] ELSE [x \in {} |-> Undefined],
        [id |-> orgId, favorite |-> TRUE,
         categories |-> getOrganizationCategories(orgId)])

getFavorites(user) ==
  /\ UNCHANGED store
  /\ IF IsFalsy(user)
     THEN Finish([handler |-> "getFavorites", user |-> user, status |-> "401"])
     ELSE IF getMemberReference(user).threw
     THEN Finish([handler |-> "getFavorites", user |-> user,
                  status |-> TypeError])
     ELSE LET memberRef == getMemberReference(user).value
              docs == {f \in DOMAIN favorites :
                         favorites[f].member = memberRef}
          IN  \E order \in Orders(docs) :
                Finish([handler |-> "getFavorites", user |-> user,
                        status |-> "200",
                        body |-> [organizations |->
                                    [i \in DOMAIN order |->
                                       FavoriteEntry(
                                         favorites[order[i]].organization)],
                                  isLoggedIn |-> TRUE]])

postFavorite(user, organizationID) ==
  /\ UNCHANGED <<organizations, acceptedCategories, members>>
  /\ IF IsFalsy(user)
     THEN /\ UNCHANGED favorites
          /\ Finish([handler |-> "postFavorite", user |-> user,
                     organizationID |-> organizationID, status |-> "401"])
     ELSE IF getMemberReference(user).threw
     THEN /\ UNCHANGED favorites
          /\ Finish([handler |-> "postFavorite", user |-> user,
                     organizationID |-> organizationID, status |-> TypeError])
     ELSE /\ \E newId \in FreshIds(favorites) :
               favorites' =
                 Put(favorites, newId,
                     [member |-> getMemberReference(user).value,
                      organization |-> organizationID])
          /\ Finish([handler |-> "postFavorite", user |-> user,
                     organizationID |-> organizationID, status |-> "201"])

deleteFavorite(user, organizationID) ==
  /\ UNCHANGED <<organizations, acceptedCategories, members>>
  /\ IF IsFalsy(user)
     THEN /\ UNCHANGED favorites
          /\ Finish([handler |-> "deleteFavorite", user |-> user,
                     organizationID |-> organizationID, status |-> "401"])
     ELSE IF getMemberReference(user).threw
     THEN /\ UNCHANGED favorites
          /\ Finish([handler |-> "deleteFavorite", user |-> user,
                     organizationID |-> organizationID, status |-> TypeError])
     ELSE LET docs == FavoritesQuery(getMemberReference(user).value,
                                     organizationID)
          IN  IF Len(docs) = 0
              THEN \* favoritesSnapshot.docs[0].ref of undefined
                   /\ UNCHANGED favorites
                   /\ Finish([handler |-> "deleteFavorite", user |-> user,
                              organizationID |-> organizationID,
                              status |-> TypeError])
              ELSE /\ favorites' = Remove(favorites, docs[1])
                   /\ Finish([handler |-> "deleteFavorite", user |-> user,
                              organizationID |-> organizationID,
                              status |-> "200"])

(***************************************************************************)
(* Specification of the Member and Favorite handlers, one request at a time *)
(***************************************************************************)
\* The store when members start using the directory: an organization may
\* already have registered an accepted category.
InitFav ==
  /\ organizations = [o \in ExistingOrgs |-> InitialOrganization(o)]
  /\ acceptedCategories \in
       {EmptyColl,
        Put(EmptyColl, 1,
            NewAcceptedCategoryData("o1", [category |-> food,
                                           instructions |-> "i1"]))}
  /\ members = EmptyColl
  /\ favorites = EmptyColl
  /\ res = NoResponse
  /\ requests = NoRequests
  /\ pendingSets = {}
  /\ detached = NoInstances
  /\ prev = snapshot

GetMemberStep == \E u \in MaybeUsers : getMember(u)

MemberSetAppliedStep == \E w \in pendingSets : MemberSetApplied(w)

GetFavoritesStep == \E u \in MaybeUsers : getFavorites(u)

PostFavoriteStep == \E u \in MaybeUsers, o \in OrgIds : postFavorite(u, o)

DeleteFavoriteStep == \E u \in MaybeUsers, o \in OrgIds : deleteFavorite(u, o)

NextFav ==
  \/ GetMemberStep
  \/ MemberSetAppliedStep
  \/ GetFavoritesStep
  \/ PostFavoriteStep
  \/ DeleteFavoriteStep
  \/ GetAllOrganizationsStep
  \/ GetFilteredOrganizationsStep
  \/ SetDatabaseStep

SpecFav == InitFav /\ [][NextFav]_vars

(***************************************************************************)
(* Properties of the AcceptedCategory handlers                              *)
(***************************************************************************)
\* The AcceptedCategories documents of an (organization, category) pair.
PairDocs(o, c) ==
  {id \in DOMAIN acceptedCategories :
     /\ acceptedCategories[id].organization = o
     /\ acceptedCategories[id].category = c}

\* C1: with the AcceptedCategory handlers run one at a time from an empty
\* store, every (organization, category) pair has at most one
\* AcceptedCategory document.
C1_AtMostOnePerPair ==
  \A o \in OrgIds, c \in CategoryInputs : Cardinality(PairDocs(o, c)) <= 1

\* The number of AcceptedCategories documents of organization o that
\* reference category c, and the number of entries of a list equal to c.
DocsOf(o, c) == Cardinality(PairDocs(o, c))
Occurrences(list, c) == Cardinality({i \in DOMAIN list : list[i] = c})

ExactlyCategoriesOf(list, o) ==
  /\ Len(list) = Cardinality({id \in DOMAIN acceptedCategories :
                                acceptedCategories[id].organization = o})
  /\ \A c \in CategoryInputs : Occurrences(list, c) = DocsOf(o, c)

\* C6: getOrganizationCategories(O) lists exactly the category IDs of the
\* AcceptedCategories documents whose organization is O, one entry per
\* document, both when called directly and in the categories attached to
\* each organization returned by getAllOrganizations.
C6_OrganizationCategoriesExact ==
  /\ \A o \in OrgIds : ExactlyCategoriesOf(getOrganizationCategories(o), o)
  /\ (res.handler = "getAllOrganizations" /\ ~res.result.threw) =>
       \A i \in DOMAIN res.result.value :
         ExactlyCategoriesOf(res.result.value[i].categories,
                             res.result.value[i].id)

\* A getAllOrganizations call has returned organization o1 with exactly its
\* one category while another organization holds a different category.
C6_Witness ==
  /\ res.handler = "getAllOrganizations"
  /\ ~res.result.threw
  /\ \E i \in DOMAIN res.result.value :
       /\ res.result.value[i].id = "o1"
       /\ res.result.value[i].categories = <<food>>
  /\ \E id \in DOMAIN acceptedCategories :
       /\ acceptedCategories[id].organization = "o2"
       /\ acceptedCategories[id].category = Food

\* The Category document a filter string selects: its lower-case form.
CategoryOfFilter(f) ==
  CASE f = Food -> food
    [] f = food -> food
    [] f = Clothing -> clothing
    [] f = clothing -> clothing

\* C7: every organization returned by getFilteredOrganizations(F, user) has
\* an AcceptedCategories document referencing the Category lower-case(F).
C7_FilteredOnlyAccepting ==
  (res.handler = "getFilteredOrganizations" /\ ~res.result.threw) =>
    \A i \in DOMAIN res.result.value :
      \E id \in DOMAIN acceptedCategories :
        /\ acceptedCategories[id].organization = res.result.value[i].id
        /\ acceptedCategories[id].category = CategoryOfFilter(res.filter)

\* Filter 'Food' has returned o1, which accepts 'food', and not o2, which
\* only has an AcceptedCategory for the distinct category 'Food'.
C7_Witness ==
  /\ res.handler = "getFilteredOrganizations"
  /\ res.filter = Food
  /\ ~res.result.threw
  /\ Len(res.result.value) = 1
  /\ res.result.value[1].id = "o1"
  /\ PairDocs("o2", Food) # {}
  /\ PairDocs("o2", food) = {}

\* After any acceptedCategoriesDelete the response is 200 and the ID names
\* no document; when it named none before, the store is as it was.
DeleteMissingState ==
  (res.handler = "acceptedCategoriesDelete") =>
    /\ res.status = "200"
    /\ res.id \notin DOMAIN acceptedCategories
    /\ (res.id \notin DOMAIN prev[2] => snapshot = prev)

\* A delete that directly follows a delete of the same ID.
DeleteTwiceStep ==
  (/\ res.handler = "acceptedCategoriesDelete"
   /\ res'.handler = "acceptedCategoriesDelete"
   /\ res'.id = res.id)
  => (store' = store /\ res'.status = "200")

\* C8: acceptedCategoriesDelete of an ID that names no document responds
\* 200 (not 404) and leaves the store as it was; a second delete of the
\* same ID responds 200 again and gives the same final store.
C8_DeleteMissingIsNoop ==
  [](DeleteMissingState) /\ [][DeleteTwiceStep]_vars

\* A delete of an ID with no document has responded 200 while another
\* document is in the collection.
C8_Witness ==
  /\ res.handler = "acceptedCategoriesDelete"
  /\ res.id \notin DOMAIN prev[2]
  /\ res.status = "200"
  /\ DOMAIN acceptedCategories # {}
  /\ acceptedCategories = prev[2]

(***************************************************************************)
(* Properties of the Member and Favorite handlers                           *)
(***************************************************************************)
\* A postFavorite answered 201 (a step that writes Favorites) directly
\* after a postFavorite of the same user and organization answered 201
\* leaves at most one linking document.
PostTwiceStep ==
  (/\ res.handler = "postFavorite" /\ res.status = "201"
   /\ res'.handler = "postFavorite" /\ res'.status = "201"
   /\ favorites' # favorites
   /\ res'.user = res.user
   /\ res'.organizationID = res.organizationID)
  => (Len(FavoritesQuery(getMemberReference(res.user).value,
                         res.organizationID)) <= 1)'

\* C2: when a member with a Member document posts a favorite for an
\* organization and then posts it again, nothing running in between, at
\* most one Favorites document links the member to the organization.
C2_PostTwiceAtMostOne == [][PostTwiceStep]_vars

\* C5: for a request without a user, isFavoriteOfMember is false for every
\* organization, and every organization returned by getAllOrganizations or
\* getFilteredOrganizations carries favorite = false, whatever Favorites
\* documents exist.
C5_UnauthenticatedNotFavorite ==
  /\ \A o \in OrgIds : isFavoriteOfMember(o, NoUser, members) = Ok(FALSE)
  /\ (/\ res.handler \in {"getAllOrganizations", "getFilteredOrganizations"}
      /\ IsFalsy(res.user)
      /\ ~res.result.threw)
     => \A i \in DOMAIN res.result.value : res.result.value[i].favorite = FALSE

\* An unauthenticated getFilteredOrganizations has returned organization o1
\* as not favorite while a Favorites document for o1 exists.
C5_Witness ==
  /\ res.handler = "getFilteredOrganizations"
  /\ IsFalsy(res.user)
  /\ ~res.result.threw
  /\ Len(res.result.value) >= 1
  /\ res.result.value[1].id = "o1"
  /\ res.result.value[1].favorite = FALSE
  /\ \E f \in DOMAIN favorites : favorites[f].organization = "o1"

\* The Member documents of a members collection that carry the user's id.
MembersOf(coll, user) ==
  {m \in DOMAIN coll : coll[m].authenticationID = user.id}

AuthenticatedHandlers ==
  {"getMember", "getFavorites", "postFavorite", "deleteFavorite"}

\* The IDs of the user's Member documents, written or with the set()
\* outstanding, given a Members collection and a set of outstanding sets.
CreatedMembers(mems, pending, user) ==
  MembersOf(mems, user)
    \cup {w.id : w \in {x \in pending : x.data.authenticationID = user.id}}

\* C10: an authenticated request by a user who has no Member document
\* creates a Member document with the user's authenticationID (it is in the
\* store, or its set() is outstanding, when the request is answered) and
\* completes with a response; a request by a user who has one creates no
\* further one.
C10_MemberCreatedLazily ==
  (res.handler \in AuthenticatedHandlers /\ ~IsFalsy(res.user)) =>
    IF MembersOf(prev[3], res.user) = {}
    THEN /\ CreatedMembers(members, pendingSets, res.user) # {}
         /\ res.status \in {"200", "201"}
    ELSE CreatedMembers(members, pendingSets, res.user)
           = CreatedMembers(prev[3], prev[5], res.user)

(***************************************************************************)
(* organizationsPost                                                        *)
(***************************************************************************)
L1 == Location(29, 95)
L2 == Location(30, 97)

GeocodeResult(loc) == [geometry |-> [location |-> loc]]

\* What awaiting fetch(...).json() can give: a rejection (network or parse
\* failure, with no JSON), or the geocoder's JSON with its list of results.
FetchRejected ==
  [rejected |-> TRUE, json |-> [status |-> "none", results |-> <<>>]]
FetchJson(status, results) ==
  [rejected |-> FALSE, json |-> [status |-> status, results |-> results]]

GeocodeOutcomes ==
  {FetchRejected, FetchJson("ZERO_RESULTS", <<>>)}
    \cup {FetchJson("OK", r) :
            r \in {<<GeocodeResult(L1)>>, <<GeocodeResult(L2)>>,
                   <<GeocodeResult(L1), GeocodeResult(L2)>>,
                   <<GeocodeResult(L2), GeocodeResult(L1)>>}}

\* Form bodies of the organization update; an unchecked box is absent.
OrganizationBodies ==
  {[address |-> "a1", acceptsDropOff |-> "on", acceptsPickUp |-> Undefined,
    acceptsShipping |-> Undefined],
   [address |-> "a2", acceptsDropOff |-> Undefined, acceptsPickUp |-> "on",
    acceptsShipping |-> "on"],
   [address |-> "a1", acceptsDropOff |-> "", acceptsPickUp |-> "on",
    acceptsShipping |-> Undefined]}

\* JavaScript !!x on the form values.
Truthy(x) == x \notin {Undefined, ""}

LastLocation(placeJSON) ==
  IF Len(placeJSON.results) = 0 THEN Throw(TypeError)
  ELSE Ok(placeJSON.results[Len(placeJSON.results)].geometry.location)

\* placeJSON.results[0].geometry.location: a TypeError on an empty list.
FirstLocation(placeJSON) ==
  IF Len(placeJSON.results) = 0 THEN Throw(TypeError)
  ELSE Ok(placeJSON.results[1].geometry.location)

\* The body as written to the document: coordinates set, flags coerced.
NewOrgData(body, coordinates) ==
  Merge(body, [coordinates |-> coordinates,
               acceptsDropOff |-> Truthy(body.acceptsDropOff),
               acceptsPickUp |-> Truthy(body.acceptsPickUp),
               acceptsShipping |-> Truthy(body.acceptsShipping)])

organizationsPost(id, body, geocode) ==
  /\ UNCHANGED <<acceptedCategories, members, favorites>>
  /\ IF geocode.rejected
     THEN /\ UNCHANGED organizations
          /\ Finish([handler |-> "organizationsPost", id |-> id,
                     body |-> body, geocode |-> geocode,
                     status |-> "FetchError"])
     ELSE IF FirstLocation(geocode.json).threw
     THEN /\ UNCHANGED organizations
          /\ Finish([handler |-> "organizationsPost", id |-> id,
                     body |-> body, geocode |-> geocode,
                     status |-> FirstLocation(geocode.json).value])
     ELSE IF id \notin DOMAIN organizations
     THEN \* update() of a missing document rejects
          /\ UNCHANGED organizations
          /\ Finish([handler |-> "organizationsPost", id |-> id,
                     body |-> body, geocode |-> geocode,
                     status |-> NotFoundError])
     ELSE /\ organizations' =
               Put(organizations, id,
                   Merge(organizations[id],
                         NewOrgData(body, FirstLocation(geocode.json).value)))
          /\ Finish([handler |-> "organizationsPost", id |-> id,
                     body |-> body, geocode |-> geocode,
                     status |-> "redirect"])

organizationsGet(id) ==
  /\ UNCHANGED store
  /\ IF id \in DOMAIN organizations
     THEN Finish([handler |-> "organizationsGet", id |-> id,
                  status |-> "200", body |-> organizations[id]])
     ELSE Finish([handler |-> "organizationsGet", id |-> id,
                  status |-> "404"])

OrganizationsPostStep ==
  \E id \in OrgIds, b \in OrganizationBodies, g \in GeocodeOutcomes :
    organizationsPost(id, b, g)

OrganizationsGetStep == \E id \in OrgIds : organizationsGet(id)

NextOrg ==
  \/ OrganizationsPostStep
  \/ OrganizationsGetStep
  \/ SetDatabaseStep

SpecOrg == Init /\ [][NextOrg]_vars

\* Whether the geocoding call of a response gave at least one result.
HasResult(geocode) == ~geocode.rejected /\ Len(geocode.json.results) >= 1

\* C9 as stated: organizationsPost stores the first result's location when
\* the geocoder returns results, and when the geocoding call fails or
\* returns no result the update still proceeds and the request completes
\* with the redirect.
C9_Original ==
  (res.handler = "organizationsPost" /\ res.id \in DOMAIN prev[1]) =>
    /\ res.status = "redirect"
    /\ HasResult(res.geocode) =>
         organizations[res.id].coordinates =
           res.geocode.json.results[1].geometry.location

\* C9, amended: with at least one geocoder result, organizationsPost of an
\* existing organization stores the first result's location and redirects;
\* when the geocoding call fails or returns no result the handler throws
\* before the update: no response is sent and the store is unchanged.
C9_GeocodeFailureThrows ==
  (res.handler = "organizationsPost") =>
    IF HasResult(res.geocode)
    THEN IF res.id \in DOMAIN prev[1]
         THEN /\ res.status = "redirect"
              /\ organizations[res.id].coordinates =
                   res.geocode.json.results[1].geometry.location
              /\ organizations[res.id].address = res.body.address
              /\ \A o \in DOMAIN organizations \ {res.id} :
                   organizations[o] = prev[1][o]
         ELSE res.status = NotFoundError /\ snapshot = prev
    ELSE /\ res.status \in {TypeError, "FetchError"}
         /\ snapshot = prev

\* An organization whose coordinates an earlier request set from the first
\* of two geocoder results has been posted again with an empty geocoder
\* result: the handler threw and left the document as it was.
C9_Witness ==
  /\ res.handler = "organizationsPost"
  /\ ~res.geocode.rejected
  /\ Len(res.geocode.json.results) = 0
  /\ res.status = TypeError
  /\ res.id \in DOMAIN organizations
  /\ organizations[res.id].coordinates = L1
  /\ snapshot = prev

(***************************************************************************)
(* Concurrent requests                                                      *)
(*                                                                          *)
(* A handler runs from one await to the next; steps of other requests, and  *)
(* setDatabase, may run in between.  An await of a store operation ends     *)
(* when the store has served it; an await of a plain value only yields,     *)
(* and the operation after it is issued on the instance firestore names     *)
(* then.  requests holds each request in flight or answered: its handler,   *)
(* its inputs, its position (pc: "query" while its query is outstanding,    *)
(* "write" while its write is, "done" after, another value while it has     *)
(* yet to issue its next operation), the instance its outstanding           *)
(* operation is bound to (db) and what its query returned.                  *)
(***************************************************************************)
RequestIds == 1..MaxRequests

\* Inputs of the concurrent requests.
ConcurrentOrgIds == {"o1"}
ConcurrentBodies == {[category |-> c, instructions |-> "i1"] : c \in CategoryInputs}

NewRequest(r) == r = Cardinality(DOMAIN requests) + 1 /\ r \in RequestIds

\* A request is called and runs up to its first await.
Call(r, request) ==
  /\ NewRequest(r)
  /\ requests' = Put(requests, r, request)
  /\ UNCHANGED <<store, res, prev, pendingSets, detached>>

\* The continuation of request r after its outstanding operation is served
\* changes no instance: the table becomes reqs.
Continue(reqs) ==
  /\ requests' = reqs
  /\ detached' = Live(detached, reqs)
  /\ UNCHANGED <<store, res, prev, pendingSets>>

\* Instance k takes the given content and the table becomes reqs.
WriteInstance(k, content, reqs) ==
  /\ requests' = reqs
  /\ UNCHANGED <<res, prev>>
  /\ IF k = Current
     THEN /\ organizations' = content.organizations
          /\ acceptedCategories' = content.acceptedCategories
          /\ members' = content.members
          /\ favorites' = content.favorites
          /\ pendingSets' = content.pendingSets
          /\ detached' = Live(detached, reqs)
     ELSE /\ UNCHANGED <<store, pendingSets>>
          /\ detached' = Live(Put(detached, k, content), reqs)

\* acceptedCategoriesOrganizationPost up to the await of the organization
\* reference: the existence query is not issued yet.
UpsertCall(r, orgId, body) ==
  Call(r, [handler |-> "acceptedCategoriesOrganizationPost",
           pc |-> "called", db |-> Current,
           data |-> NewAcceptedCategoryData(orgId, body),
           existing |-> <<>>, status |-> "pending"])

\* After the awaits of the two references the existence query is issued,
\* on the instance firestore names now.
UpsertQueryIssued(r) ==
  /\ r \in DOMAIN requests
  /\ requests[r].handler = "acceptedCategoriesOrganizationPost"
  /\ requests[r].pc = "called"
  /\ Continue(Put(requests, r,
                  Merge(requests[r], [pc |-> "query", db |-> Current])))

\* The position after the snapshot: on an empty snapshot the set() is
\* issued at once; otherwise the handler awaits the path segments of
\* docs[0] before it issues the update().
AfterSnapshot(existing) == IF Len(existing) = 0 THEN "write" ELSE "update"

\* The existence query is served by the instance it was issued on and the
\* handler branches on the snapshot; a set() is issued on the instance
\* firestore names now.
UpsertQueryServed(r) ==
  /\ r \in DOMAIN requests
  /\ requests[r].handler = "acceptedCategoriesOrganizationPost"
  /\ requests[r].pc = "query"
  /\ LET existing ==
           ExistingCategory(
             InstanceContent(requests[r].db).acceptedCategories,
             requests[r].data)
     IN  Continue(Put(requests, r,
                      Merge(requests[r],
                            [pc |-> AfterSnapshot(existing), db |-> Current,
                             existing |-> existing])))

\* After the await of the path segments the update() is issued, on the
\* instance firestore names now.
UpsertUpdateIssued(r) ==
  /\ r \in DOMAIN requests
  /\ requests[r].handler = "acceptedCategoriesOrganizationPost"
  /\ requests[r].pc = "update"
  /\ Continue(Put(requests, r,
                  Merge(requests[r], [pc |-> "write", db |-> Current])))

\* The set() or update() is served by the instance it was issued on, and
\* the handler answers 201 (an update that rejects goes uncaught).
UpsertWriteServed(r) ==
  /\ r \in DOMAIN requests
  /\ requests[r].handler = "acceptedCategoriesOrganizationPost"
  /\ requests[r].pc = "write"
  /\ LET inst == InstanceContent(requests[r].db)
         existing == requests[r].existing
     IN  \E newId \in DocIds :
           /\ Len(existing) = 0 => newId \in FreshIds(inst.acceptedCategories)
           /\ Len(existing) # 0 => newId = existing[1]
           /\ WriteInstance(
                requests[r].db,
                Merge(inst,
                      [acceptedCategories |->
                         UpsertWrite(inst.acceptedCategories, existing,
                                     requests[r].data, newId)]),
                Put(requests, r,
                    Merge(requests[r],
                          [pc |-> "done", db |-> Current,
                           status |-> UpsertStatus(inst.acceptedCategories,
                                                   existing)])))

\* getMember up to the return of the handler: the query is built on the
\* instance firestore names in the call, and its get() goes to that one.
GetMemberCall(r, user) ==
  Call(r, [handler |-> "getMember", pc |-> "query", db |-> Current,
           user |-> user, status |-> "pending", body |-> [id |-> 0]])

\* The Members query is served by the instance it was issued on and the
\* then-callback runs: it answers, and in the create branch it has issued
\* the set() on the instance firestore names now.
GetMemberQueryServed(r) ==
  /\ r \in DOMAIN requests
  /\ requests[r].handler = "getMember"
  /\ requests[r].pc = "query"
  /\ LET found == MemberDocs(InstanceContent(requests[r].db).members,
                             requests[r].user)
         reqs == Put(requests, r,
                     Merge(requests[r],
                           [pc |-> "done", db |-> Current, status |-> "200",
                            body |-> MemberResponse(found)]))
     IN  /\ \E newId \in DocIds :
              /\ Len(found) = 0 => newId \in NewMemberIds
              /\ Len(found) # 0 => newId = found[1]
              /\ pendingSets' =
                   MemberSetIssued(found, requests[r].user, newId)
         /\ requests' = reqs
         /\ detached' = Live(detached, reqs)
         /\ UNCHANGED <<store, res, prev>>

\* A replaced instance applies an outstanding set() of getMember.
DetachedMemberSetApplied(k, w) ==
  /\ k \in DOMAIN detached
  /\ w \in detached[k].pendingSets
  /\ detached' =
       Put(detached, k,
           Merge(detached[k],
                 [members |-> Put(detached[k].members, w.id, w.data),
                  pendingSets |-> detached[k].pendingSets \ {w}]))
  /\ UNCHANGED <<store, res, prev, requests, pendingSets>>

DetachedMemberSetAppliedStep ==
  \E k \in DOMAIN detached :
    \E w \in detached[k].pendingSets : DetachedMemberSetApplied(k, w)

\* postFavorite up to the await of getMemberReference, whose query is
\* issued in the call, on the instance firestore names.
PostFavoriteCall(r, user, organizationID) ==
  Call(r, [handler |-> "postFavorite", pc |-> "query", db |-> Current,
           user |-> user, organizationID |-> organizationID,
           memberRef |-> 0, status |-> "pending"])

\* The Members query is served by the instance it was issued on:
\* getMemberReference throws on an empty snapshot, else the handler goes on
\* to the await of the organization reference.
PostFavoriteMemberServed(r) ==
  /\ r \in DOMAIN requests
  /\ requests[r].handler = "postFavorite"
  /\ requests[r].pc = "query"
  /\ LET ref == getMemberReferenceOn(InstanceContent(requests[r].db).members,
                                     requests[r].user)
     IN  Continue(Put(requests, r,
                      Merge(requests[r],
                            IF ref.threw
                            THEN [pc |-> "done", db |-> Current,
                                  status |-> TypeError]
                            ELSE [pc |-> "set", db |-> Current,
                                  memberRef |-> ref.value])))

\* After the await of the organization reference the set() of the new
\* Favorites document is issued, on the instance firestore names now.
PostFavoriteSetIssued(r) ==
  /\ r \in DOMAIN requests
  /\ requests[r].handler = "postFavorite"
  /\ requests[r].pc = "set"
  /\ Continue(Put(requests, r,
                  Merge(requests[r], [pc |-> "write", db |-> Current])))

\* The set() of the Favorites document is served by the instance it was
\* issued on, and the handler answers 201.
PostFavoriteSetServed(r) ==
  /\ r \in DOMAIN requests
  /\ requests[r].handler = "postFavorite"
  /\ requests[r].pc = "write"
  /\ LET inst == InstanceContent(requests[r].db)
     IN  \E newId \in FreshIds(inst.favorites) :
           WriteInstance(
             requests[r].db,
             Merge(inst,
                   [favorites |->
                      Put(inst.favorites, newId,
                          [member |-> requests[r].memberRef,
                           organization |-> requests[r].organizationID])]),
             Put(requests, r,
                 Merge(requests[r],
                       [pc |-> "done", db |-> Current, status |-> "201"])))

\* Concurrent upserts of accepted categories.
NextConc ==
  \/ \E r \in RequestIds, o \in ConcurrentOrgIds, b \in ConcurrentBodies :
       UpsertCall(r, o, b)
  \/ \E r \in RequestIds : UpsertQueryIssued(r)
  \/ \E r \in RequestIds : UpsertQueryServed(r)
  \/ \E r \in RequestIds : UpsertUpdateIssued(r)
  \/ \E r \in RequestIds : UpsertWriteServed(r)
  \/ SetDatabaseStep

SpecConc == Init /\ [][NextConc]_vars

\* Concurrent requests of members: getMember and postFavorite.
NextConcFav ==
  \/ \E r \in RequestIds, u \in Users : GetMemberCall(r, u)
  \/ \E r \in RequestIds : GetMemberQueryServed(r)
  \/ MemberSetAppliedStep
  \/ DetachedMemberSetAppliedStep
  \/ \E r \in RequestIds, u \in Users : PostFavoriteCall(r, u, "o1")
  \/ \E r \in RequestIds : PostFavoriteMemberServed(r)
  \/ \E r \in RequestIds : PostFavoriteSetIssued(r)
  \/ \E r \in RequestIds : PostFavoriteSetServed(r)
  \/ SetDatabaseStep

SpecConcFav == Init /\ [][NextConcFav]_vars

\* The answered upserts of a pair whose existence query found no document.
InsertingUpserts(o, c) ==
  {r \in DOMAIN requests :
     /\ requests[r].handler = "acceptedCategoriesOrganizationPost"
     /\ requests[r].pc = "done"
     /\ Len(requests[r].existing) = 0
     /\ requests[r].data.organization = o
     /\ requests[r].data.category = c}

\* The write step of upsert request r, taken on an empty query snapshot.
InsertingWriteStep(r) ==
  /\ r \in DOMAIN requests
  /\ requests[r].handler = "acceptedCategoriesOrganizationPost"
  /\ requests[r].pc = "write"
  /\ Len(requests[r].existing) = 0
  /\ requests'[r].pc = "done"

\* The number of documents of request r's pair in a collection.
PairCount(accepted, r) ==
  Cardinality({id \in DOMAIN accepted :
                 /\ accepted[id].organization = requests[r].data.organization
                 /\ accepted[id].category = requests[r].data.category})

\* C3: an upsert whose existence query found no document takes the insert
\* branch whatever was written since: its set() adds one document for its
\* (organization, category) pair to the instance it was issued on (the
\* store, unless setDatabase has replaced that instance, and then the store
\* is left as it is) and is answered 201.  So two interleaved upserts of one
\* pair leave two AcceptedCategories documents for it.
C3_InterleavedUpsertsBothInsert ==
  [][\A r \in RequestIds :
       InsertingWriteStep(r) =>
         /\ requests'[r].status = "201"
         /\ requests[r].db = Current =>
              PairCount(acceptedCategories', r)
                = PairCount(acceptedCategories, r) + 1
         /\ requests[r].db # Current =>
              /\ acceptedCategories' = acceptedCategories
              /\ requests[r].db \in DOMAIN detached' =>
                   PairCount(detached'[requests[r].db].acceptedCategories, r)
                     = PairCount(detached[requests[r].db].acceptedCategories,
                                 r) + 1]_vars

\* Two upserts of (o1, food) have both been answered 201 after both queried
\* an empty collection, and two documents for the pair exist.
C3_Witness ==
  /\ Cardinality(InsertingUpserts("o1", food)) = 2
  /\ \A r \in InsertingUpserts("o1", food) : requests[r].status = "201"
  /\ Cardinality(PairDocs("o1", food)) = 2

\* C4: under any interleaving of requests no user has more than one Member
\* document (duplicates arise among AcceptedCategories and Favorites only).
C4_NoDuplicateMembers ==
  \A u \in Users : Cardinality(MembersOf(members, u)) <= 1

(***************************************************************************)
(* Effect of the upsert                                                     *)
(***************************************************************************)
\* The documents of a pair in a given AcceptedCategories collection.
PairDocsIn(coll, o, c) ==
  {id \in DOMAIN coll : coll[id].organization = o /\ coll[id].category = c}

\* The document the upsert request of a response is expected to leave.
UpsertedDocument(response) ==
  [organization |-> response.organization,
   category |-> response.body.category,
   instructions |-> response.body.instructions]

\* C11: a non-interleaved acceptedCategoriesOrganizationPost for (O, C)
\* responds 201; with no document for (O, C) it adds exactly one new
\* document for (O, C); with one it updates an existing document of the
\* pair with the request body and the number of documents is unchanged; in
\* both cases every other document is left as it was.
C11_UpsertEffect ==
  (res.handler = "acceptedCategoriesOrganizationPost") =>
    LET before == prev[2]
        pair == PairDocsIn(before, res.organization, res.body.category)
    IN  /\ res.status = "201"
        /\ IF pair = {}
           THEN \E id \in DOMAIN acceptedCategories \ DOMAIN before :
                  /\ DOMAIN acceptedCategories = DOMAIN before \cup {id}
                  /\ acceptedCategories[id] = UpsertedDocument(res)
                  /\ \A x \in DOMAIN before : acceptedCategories[x] = before[x]
           ELSE \E id \in pair :
                  /\ DOMAIN acceptedCategories = DOMAIN before
                  /\ acceptedCategories[id] = UpsertedDocument(res)
                  /\ \A x \in DOMAIN before \ {id} :
                       acceptedCategories[x] = before[x]

\* An upsert of (o1, food) with instructions i2 has updated the existing
\* document of the pair, which held i1, next to an unchanged document of
\* another organization for the same category.
C11_Witness ==
  /\ res.handler = "acceptedCategoriesOrganizationPost"
  /\ res.organization = "o1"
  /\ res.body = [category |-> food, instructions |-> "i2"]
  /\ \E id \in PairDocsIn(prev[2], "o1", food) :
       /\ prev[2][id].instructions = "i1"
       /\ acceptedCategories[id].instructions = "i2"
  /\ PairDocsIn(prev[2], "o2", food) # {}
  /\ PairDocsIn(acceptedCategories, "o2", food) = PairDocsIn(prev[2], "o2", food)
  /\ Cardinality(DOMAIN acceptedCategories) = 2

(***************************************************************************)
(* Favorite flag and removal                                                *)
(***************************************************************************)
\* Whether some Favorites document links the user's Member document to the
\* organization.
HasFavorite(user, o) ==
  \E f \in DOMAIN favorites :
    /\ favorites[f].member \in MembersOf(members, user)
    /\ favorites[f].organization = o

\* C12: for a member with a Member document, after any sequence of
\* postFavorite and deleteFavorite requests, isFavoriteOfMember(O, M) is
\* true exactly when at least one Favorites document links M to O, and so
\* is the favorite flag of every organization getAllOrganizations returns.
C12_FavoriteFlagIffLinked ==
  /\ \A u \in Users, o \in OrgIds :
       MembersOf(members, u) # {} =>
         /\ ~isFavoriteOfMember(o, u, members).threw
         /\ isFavoriteOfMember(o, u, members).value = HasFavorite(u, o)
  /\ (/\ res.handler = "getAllOrganizations"
      /\ ~IsFalsy(res.user)
      /\ ~res.result.threw)
     => \A i \in DOMAIN res.result.value :
          res.result.value[i].favorite =
            HasFavorite(res.user, res.result.value[i].id)

\* Whether a response status is an HTTP response (not an uncaught error).
Responded(status) == status \notin {TypeError, NotFoundError, "FetchError"}

\* Favorites documents of a collection linking a member of the user to o.
LinksIn(favs, mems, user, o) ==
  {f \in DOMAIN favs :
     /\ favs[f].member \in MembersOf(mems, user)
     /\ favs[f].organization = o}

\* C13: whenever deleteFavorite by a member for an organization responds
\* 200, no Favorites document links the member to the organization
\* afterwards; and a deleteFavorite for a pair with no Favorites document
\* still completes with a response.
C13_DeleteFavoriteRemovesAll ==
  (/\ res.handler = "deleteFavorite"
   /\ ~IsFalsy(res.user)
   /\ MembersOf(prev[3], res.user) # {})
  => /\ res.status = "200" =>
          LinksIn(favorites, members, res.user, res.organizationID) = {}
     /\ LinksIn(prev[4], prev[3], res.user, res.organizationID) = {} =>
          Responded(res.status)
====
